---- MODULE Spec2Model ----
(***************************************************************************)
(* Model of sqlcertcache.Cache (src/sqlcertcache.go, lines 79-196): an     *)
(* autocert.Cache that keeps certificate data in a SQL table and in an     *)
(* in-memory map guarded by a sync.RWMutex.                                *)
(*                                                                         *)
(* Each goroutine calling Get, Put or Delete is a process; every store     *)
(* round trip and every lock acquisition is one step.  A store call may    *)
(* fail at any time (connectivity, cancelled context).                     *)
(***************************************************************************)
EXTENDS Integers, Sequences, FiniteSets, TLC

\* ---- bounds ----
NumProcs == 2
NumKeys == 2
NumVals == 2
MaxNameLen == 2
MaxStmts == 6
NumLiveKeys == 1
NumLiveVals == 1

Procs == 1..NumProcs
Keys == 1..NumKeys
Payloads == 1..NumVals

\* Characters a table name is made of; the first two are white space.
Chars == {" ", "\t", "a"}
Names == UNION {[1..n -> Chars] : n \in 0..MaxNameLen}

VARIABLES
    certs,      \* c.certs: the in-memory map, a function from a set of keys
    table,      \* the rows of the SQL table, each [key, data]
    rlocked,    \* goroutines holding c.certsMu for reading
    wlocked,    \* the goroutine whose c.certsMu.Lock() is pending or granted, or 0
    pc,         \* where each goroutine is in its call
    op,         \* the method each goroutine called last
    key,        \* its key argument
    val,        \* its data argument (Put)
    rows,       \* Put: rowsAffected, while the call is between lines 163 and 168
    res,        \* what the last call of each goroutine returned
    last,       \* history: the last write call on each key that returned
    putTargets, \* history: keys some Put was called with
    putOK,      \* history: keys some Put returned nil for
    conc,       \* history: the Put overlapped another goroutine's Put of the key
    held,       \* history: c.certs as it was when the write lock was taken
    storeOut,   \* history: how the last database/sql call of each call ended
    newName,    \* the tableName argument of the last call of New
    newRes,     \* what the last call of New returned
    stmts       \* statements New has executed on conn

cacheVars == <<certs, table, rlocked, wlocked>>
procVars == <<pc, op, key, val, rows, res>>
histVars == <<last, putTargets, putOK, conc>>
auxVars == <<held, storeOut>>
newVars == <<newName, newRes, stmts>>
vars == <<certs, table, rlocked, wlocked, pc, op, key, val, rows, res,
          last, putTargets, putOK, conc, held, storeOut, newName, newRes, stmts>>

\* ---- results ----
NoRes == [kind |-> "none", data |-> 0]
Nil == [kind |-> "ok", data |-> 0]
Data(d) == [kind |-> "ok", data |-> d]
ErrCacheMiss == [kind |-> "miss", data |-> 0]
StoreErr == [kind |-> "err", data |-> 0]

NoWrite == [kind |-> "none", data |-> 0, prev |-> 0]

\* ---- New ----
IsSpace(ch) == ch \in {" ", "\t"}

RECURSIVE TrimLeft(_)
TrimLeft(s) ==
    IF s = <<>> THEN s
    ELSE IF IsSpace(Head(s)) THEN TrimLeft(Tail(s)) ELSE s

RECURSIVE TrimRight(_)
TrimRight(s) ==
    IF s = <<>> THEN s
    ELSE IF IsSpace(s[Len(s)]) THEN TrimRight(SubSeq(s, 1, Len(s) - 1)) ELSE s

TrimSpaceNoop(s) == s

\* strings.TrimSpace
TrimSpace(s) == TrimRight(TrimLeft(s))

EmptyCerts == [k \in {} |-> 0]

\* New(conn, tableName)
New(name) ==
    /\ stmts < MaxStmts
    /\ newName' = name
    /\ IF TrimSpace(name) = <<>>
       THEN /\ newRes' = [cache |-> FALSE, err |-> "tableName must not be empty"]
            /\ stmts' = stmts
            /\ certs' = certs
       ELSE /\ stmts' = stmts + 1
            /\ \E fail \in BOOLEAN :
                 IF fail
                 THEN /\ newRes' = [cache |-> FALSE, err |-> "exec"]
                      /\ certs' = certs
                 ELSE /\ newRes' = [cache |-> TRUE, err |-> "nil"]
                      /\ certs' = EmptyCerts
    /\ UNCHANGED <<table, rlocked, wlocked>>
    /\ UNCHANGED procVars
    /\ UNCHANGED histVars
    /\ UNCHANGED auxVars

\* ---- the store, as the four statements see it ----
Row(k, d) == [key |-> k, data |-> d]

\* `SELECT data FROM t`: getQuery has no WHERE clause and QueryRowContext is
\* given no argument, so every row of the table matches whatever the key.
GetQueryRows(t, k) == t

\* QueryRowContext + Scan: the first row of the result (the statement has no
\* ORDER BY, so any row), sql.ErrNoRows on an empty result, or a failure.
QueryRowScan(t, k) ==
    {[err |-> "fail", data |-> 0]}
      \cup (IF GetQueryRows(t, k) = {}
            THEN {[err |-> "ErrNoRows", data |-> 0]}
            ELSE {[err |-> "nil", data |-> r.data] : r \in GetQueryRows(t, k)})

GetResultSwallow(out) ==
    IF out.err = "nil" THEN Data(out.data) ELSE ErrCacheMiss

\* Get, lines 147-150
GetResult(out) ==
    IF out.err = "ErrNoRows" THEN ErrCacheMiss
    ELSE IF out.err = "nil" THEN Data(out.data)
    ELSE StoreErr

ExecUpdateNoop(t, k, d) == t

\* `UPDATE t SET data = $2 WHERE key = $1`
ExecUpdate(t, k, d) == {IF r.key = k THEN Row(k, d) ELSE r : r \in t}

\* result.RowsAffected() of the UPDATE
UpdateRowsAffected(t, k) == Cardinality({r \in t : r.key = k})

\* `INSERT INTO t (key, data) VALUES($1, $2)`; key is the primary key
InsertConflict(t, k) == \E r \in t : r.key = k
ExecInsert(t, k, d) == t \cup {Row(k, d)}

ExecDeleteAll(t, k) == {}

\* `DELETE FROM t WHERE key = $1`
ExecDelete(t, k) == {r \in t : r.key # k}

PutCertsSkip(c, k, d) == c

\* c.certs[key] = data
PutCerts(c, k, d) == [x \in DOMAIN c \cup {k} |-> IF x = k THEN d ELSE c[x]]

DeleteCertsKeep(c, k) == c

\* delete(c.certs, key)
DeleteCerts(c, k) == [x \in DOMAIN c \ {k} |-> c[x]]

DeleteResultStrict(execFailed, affected) ==
    IF execFailed \/ affected = 0 THEN StoreErr ELSE Nil

\* Delete, lines 190-194: only the error of ExecContext is looked at
DeleteResult(execFailed, affected) == IF execFailed THEN StoreErr ELSE Nil

\* ---- calls ----
PutInFlight(p, k) == pc[p] # "idle" /\ op[p] = "Put" /\ key[p] = k
\* Readers that called RLock while a Lock was pending or granted: they sleep
\* until that writer's Unlock hands them the lock.
BlockedReaders == {q \in Procs : pc[q] = "get_rwait" /\ q \notin rlocked}

Call(p, o, k, d) ==
    /\ pc[p] = "idle"
    /\ op' = [op EXCEPT ![p] = o]
    /\ key' = [key EXCEPT ![p] = k]
    /\ val' = [val EXCEPT ![p] = d]
    /\ rows' = [rows EXCEPT ![p] = 0]
    /\ res' = [res EXCEPT ![p] = NoRes]
    /\ conc' = [q \in Procs |->
                  IF q = p THEN o = "Put" /\ \E r \in Procs \ {p} : PutInFlight(r, k)
                  ELSE IF o = "Put" /\ PutInFlight(q, k) THEN TRUE ELSE conc[q]]
    /\ storeOut' = [storeOut EXCEPT ![p] = "none"]
    /\ UNCHANGED cacheVars
    /\ UNCHANGED newVars
    /\ UNCHANGED <<last, putOK, held>>

\* The history of writes on a key, updated when a Put or Delete returns.
LastAfter(p, r) ==
    IF op[p] = "Put"
    THEN IF r.kind = "ok"
         THEN [kind |-> "put", data |-> val[p],
               prev |-> IF last[key[p]].kind = "put" THEN last[key[p]].data ELSE 0]
         ELSE [kind |-> "putfail", data |-> 0, prev |-> 0]
    ELSE IF r.kind = "ok"
         THEN [kind |-> "del", data |-> 0, prev |-> 0]
         ELSE [kind |-> "delfail", data |-> 0, prev |-> 0]

\* A return whose Unlock leaves the readers blocked behind the writer asleep.
ReturnNoWake(p, r) ==
    /\ pc' = [pc EXCEPT ![p] = "idle"]
    /\ res' = [res EXCEPT ![p] = r]
    /\ rlocked' = rlocked \ {p}
    /\ wlocked' = IF wlocked = p THEN 0 ELSE wlocked
    /\ last' = IF op[p] = "Get" THEN last
               ELSE [last EXCEPT ![key[p]] = LastAfter(p, r)]
    /\ putOK' = IF op[p] = "Put" /\ r.kind = "ok" THEN putOK \cup {key[p]} ELSE putOK
    /\ held' = IF op[p] = "Get" THEN held ELSE EmptyCerts
    /\ UNCHANGED <<op, key, val, putTargets, conc>>
    /\ UNCHANGED newVars

ReturnKeepLockOnError(p, r) ==
    /\ pc' = [pc EXCEPT ![p] = "idle"]
    /\ res' = [res EXCEPT ![p] = r]
    /\ rlocked' = IF r = StoreErr THEN rlocked
                  ELSE IF wlocked = p THEN (rlocked \ {p}) \cup BlockedReaders
                  ELSE rlocked \ {p}
    /\ wlocked' = IF wlocked = p /\ r # StoreErr THEN 0 ELSE wlocked
    /\ last' = IF op[p] = "Get" THEN last
               ELSE [last EXCEPT ![key[p]] = LastAfter(p, r)]
    /\ putOK' = IF op[p] = "Put" /\ r.kind = "ok" THEN putOK \cup {key[p]} ELSE putOK
    /\ held' = IF op[p] = "Get" THEN held ELSE EmptyCerts
    /\ UNCHANGED <<op, key, val, putTargets, conc>>
    /\ UNCHANGED newVars

\* return r; the deferred RUnlock / Unlock runs
Return(p, r) ==
    /\ pc' = [pc EXCEPT ![p] = "idle"]
    /\ res' = [res EXCEPT ![p] = r]
    /\ rlocked' = IF wlocked = p THEN (rlocked \ {p}) \cup BlockedReaders
                  ELSE rlocked \ {p}
    /\ wlocked' = IF wlocked = p THEN 0 ELSE wlocked
    /\ last' = IF op[p] = "Get" THEN last
               ELSE [last EXCEPT ![key[p]] = LastAfter(p, r)]
    /\ putOK' = IF op[p] = "Put" /\ r.kind = "ok" THEN putOK \cup {key[p]} ELSE putOK
    /\ held' = IF op[p] = "Get" THEN held ELSE EmptyCerts
    /\ UNCHANGED <<op, key, val, putTargets, conc>>
    /\ UNCHANGED newVars

Goto(p, loc) ==
    /\ pc' = [pc EXCEPT ![p] = loc]
    /\ UNCHANGED <<op, key, val, res, rlocked, wlocked, held>>
    /\ UNCHANGED histVars
    /\ UNCHANGED newVars

\* ---- Get ----
GetCall(p, k) ==
    /\ Call(p, "Get", k, 0)
    /\ pc' = [pc EXCEPT ![p] = "get_rlock"]
    /\ UNCHANGED putTargets

GetRLockBarge(p) ==
    /\ pc[p] = "get_rlock"
    /\ rlocked' = rlocked \cup {p}
    /\ pc' = [pc EXCEPT ![p] = "get_find"]
    /\ UNCHANGED <<certs, table, wlocked, op, key, val, rows, res>>
    /\ UNCHANGED histVars
    /\ UNCHANGED auxVars
    /\ UNCHANGED newVars

\* c.certsMu.RLock(): granted at once unless a Lock is pending or granted;
\* then the reader sleeps until that writer unlocks
GetRLock(p) ==
    /\ pc[p] = "get_rlock"
    /\ IF wlocked = 0
       THEN /\ rlocked' = rlocked \cup {p}
            /\ pc' = [pc EXCEPT ![p] = "get_find"]
       ELSE /\ rlocked' = rlocked
            /\ pc' = [pc EXCEPT ![p] = "get_rwait"]
    /\ UNCHANGED <<certs, table, wlocked, op, key, val, rows, res>>
    /\ UNCHANGED histVars
    /\ UNCHANGED auxVars
    /\ UNCHANGED newVars

\* c.certsMu.RLock() returns in a reader the writer's Unlock has released
GetRWake(p) ==
    /\ pc[p] = "get_rwait"
    /\ p \in rlocked
    /\ pc' = [pc EXCEPT ![p] = "get_find"]
    /\ UNCHANGED <<certs, table, rlocked, wlocked, op, key, val, rows, res>>
    /\ UNCHANGED histVars
    /\ UNCHANGED auxVars
    /\ UNCHANGED newVars

GetFindAlwaysQuery(p) ==
    /\ pc[p] = "get_find"
    /\ Goto(p, "get_query")
    /\ UNCHANGED <<certs, table, rows, storeOut>>

\* data, ok := c.certs[key]; if ok { return data, nil }
GetFind(p) ==
    /\ pc[p] = "get_find"
    /\ IF key[p] \in DOMAIN certs
       THEN Return(p, Data(certs[key[p]]))
       ELSE Goto(p, "get_query")
    /\ UNCHANGED <<certs, table, rows, storeOut>>

GetQueryReadThrough(p) ==
    /\ pc[p] = "get_query"
    /\ \E out \in QueryRowScan(table, key[p]) :
         /\ Return(p, GetResult(out))
         /\ storeOut' = [storeOut EXCEPT ![p] = out.err]
         /\ certs' = IF out.err = "nil" THEN PutCerts(certs, key[p], out.data) ELSE certs
    /\ UNCHANGED <<table, rows>>

\* row := c.conn.QueryRowContext(ctx, c.getQuery); err := row.Scan(&data)
GetQuery(p) ==
    /\ pc[p] = "get_query"
    /\ \E out \in QueryRowScan(table, key[p]) :
         /\ Return(p, GetResult(out))
         /\ storeOut' = [storeOut EXCEPT ![p] = out.err]
    /\ UNCHANGED <<certs, table, rows>>

\* ---- Put ----
PutCall(p, k, d) ==
    /\ Call(p, "Put", k, d)
    /\ pc' = [pc EXCEPT ![p] = "put_lock"]
    /\ putTargets' = putTargets \cup {k}

PutLockShared(p) ==
    /\ pc[p] = "put_lock"
    /\ wlocked' = p
    /\ pc' = [pc EXCEPT ![p] = IF rlocked = {} THEN "put_update" ELSE "put_drain"]
    /\ UNCHANGED <<certs, table, rlocked, op, key, val, rows, res, storeOut>>
    /\ UNCHANGED histVars
    /\ held' = certs
    /\ UNCHANGED newVars

\* c.certsMu.Lock(): one writer at a time announces itself, which turns new
\* readers away, and then waits for the readers that hold the lock
PutLock(p) ==
    /\ pc[p] = "put_lock"
    /\ wlocked = 0
    /\ wlocked' = p
    /\ pc' = [pc EXCEPT ![p] = IF rlocked = {} THEN "put_update" ELSE "put_drain"]
    /\ UNCHANGED <<certs, table, rlocked, op, key, val, rows, res, storeOut>>
    /\ UNCHANGED histVars
    /\ held' = certs
    /\ UNCHANGED newVars

PutUpdateMemFirst(p) ==
    /\ pc[p] = "put_update"
    /\ certs' = PutCerts(certs, key[p], val[p])
    /\ \/ /\ Return(p, StoreErr)
          /\ storeOut' = [storeOut EXCEPT ![p] = "fail"]
          /\ UNCHANGED <<table, rows>>
       \/ /\ table' = ExecUpdate(table, key[p], val[p])
          /\ rows' = [rows EXCEPT ![p] = UpdateRowsAffected(table, key[p])]
          /\ pc' = [pc EXCEPT ![p] = "put_rows"]
          /\ storeOut' = [storeOut EXCEPT ![p] = "nil"]
          /\ UNCHANGED <<op, key, val, res, rlocked, wlocked, held>>
          /\ UNCHANGED histVars
          /\ UNCHANGED newVars

\* c.certsMu.Lock() returns once the last reader has unlocked
LockDrained(p) ==
    /\ pc[p] \in {"put_drain", "del_drain"}
    /\ rlocked = {}
    /\ pc' = [pc EXCEPT ![p] = IF pc[p] = "put_drain" THEN "put_update" ELSE "del_mem"]
    /\ UNCHANGED <<certs, table, rlocked, wlocked, op, key, val, rows, res>>
    /\ UNCHANGED histVars
    /\ UNCHANGED auxVars
    /\ UNCHANGED newVars

\* result, err := c.conn.ExecContext(ctx, c.updateQuery, key, data)
PutUpdate(p) ==
    /\ pc[p] = "put_update"
    /\ \/ /\ Return(p, StoreErr)
          /\ storeOut' = [storeOut EXCEPT ![p] = "fail"]
          /\ UNCHANGED <<certs, table, rows>>
       \/ /\ table' = ExecUpdate(table, key[p], val[p])
          /\ rows' = [rows EXCEPT ![p] = UpdateRowsAffected(table, key[p])]
          /\ pc' = [pc EXCEPT ![p] = "put_rows"]
          /\ storeOut' = [storeOut EXCEPT ![p] = "nil"]
          /\ UNCHANGED <<op, key, val, res, rlocked, wlocked, held>>
          /\ UNCHANGED histVars
          /\ UNCHANGED newVars
          /\ UNCHANGED certs

PutRowsAffectedNoInsert(p) ==
    /\ pc[p] = "put_rows"
    /\ \/ /\ Return(p, StoreErr)
          /\ storeOut' = [storeOut EXCEPT ![p] = "fail"]
          /\ UNCHANGED <<certs, table>>
       \/ /\ certs' = PutCerts(certs, key[p], val[p])
          /\ Return(p, Nil)
          /\ UNCHANGED <<table, storeOut>>
    /\ rows' = [rows EXCEPT ![p] = 0]

\* rowsAffected, err := result.RowsAffected(); if rowsAffected == 0 {...}
PutRowsAffected(p) ==
    /\ pc[p] = "put_rows"
    /\ \/ /\ Return(p, StoreErr)
          /\ storeOut' = [storeOut EXCEPT ![p] = "fail"]
          /\ UNCHANGED <<certs, table>>
       \/ /\ rows[p] = 0
          /\ Goto(p, "put_insert")
          /\ UNCHANGED <<certs, table, storeOut>>
       \/ /\ rows[p] # 0
          /\ certs' = PutCerts(certs, key[p], val[p])
          /\ Return(p, Nil)
          /\ UNCHANGED <<table, storeOut>>
    /\ rows' = [rows EXCEPT ![p] = 0]

PutInsertIgnoreErr(p) ==
    /\ pc[p] = "put_insert"
    /\ \/ /\ storeOut' = [storeOut EXCEPT ![p] = "fail"]
          /\ certs' = PutCerts(certs, key[p], val[p])
          /\ Return(p, Nil)
          /\ UNCHANGED table
       \/ /\ ~InsertConflict(table, key[p])
          /\ table' = ExecInsert(table, key[p], val[p])
          /\ certs' = PutCerts(certs, key[p], val[p])
          /\ storeOut' = [storeOut EXCEPT ![p] = "nil"]
          /\ Return(p, Nil)
    /\ UNCHANGED rows

\* _, err := c.conn.ExecContext(ctx, c.insertQuery, key, data)
PutInsert(p) ==
    /\ pc[p] = "put_insert"
    /\ \/ /\ Return(p, StoreErr)
          /\ storeOut' = [storeOut EXCEPT ![p] = "fail"]
          /\ UNCHANGED <<certs, table>>
       \/ /\ ~InsertConflict(table, key[p])
          /\ table' = ExecInsert(table, key[p], val[p])
          /\ certs' = PutCerts(certs, key[p], val[p])
          /\ storeOut' = [storeOut EXCEPT ![p] = "nil"]
          /\ Return(p, Nil)
    /\ UNCHANGED rows

\* ---- Delete ----
DeleteCall(p, k) ==
    /\ Call(p, "Delete", k, 0)
    /\ pc' = [pc EXCEPT ![p] = "del_lock"]
    /\ UNCHANGED putTargets

\* c.certsMu.Lock()
DeleteLock(p) ==
    /\ pc[p] = "del_lock"
    /\ wlocked = 0
    /\ wlocked' = p
    /\ pc' = [pc EXCEPT ![p] = IF rlocked = {} THEN "del_mem" ELSE "del_drain"]
    /\ UNCHANGED <<certs, table, rlocked, op, key, val, rows, res, storeOut>>
    /\ UNCHANGED histVars
    /\ held' = certs
    /\ UNCHANGED newVars

\* _, ok := c.certs[key]; if ok { delete(c.certs, key) }
DeleteMem(p) ==
    /\ pc[p] = "del_mem"
    /\ certs' = IF key[p] \in DOMAIN certs THEN DeleteCerts(certs, key[p]) ELSE certs
    /\ Goto(p, "del_exec")
    /\ UNCHANGED <<table, rows, storeOut>>

\* _, err := c.conn.ExecContext(ctx, c.deleteQuery, key)
DeleteExec(p) ==
    /\ pc[p] = "del_exec"
    /\ \/ /\ Return(p, DeleteResult(TRUE, 0))
          /\ storeOut' = [storeOut EXCEPT ![p] = "fail"]
          /\ UNCHANGED table
       \/ /\ table' = ExecDelete(table, key[p])
          /\ storeOut' = [storeOut EXCEPT ![p] = "nil"]
          /\ Return(p, DeleteResult(FALSE, Cardinality(table) - Cardinality(ExecDelete(table, key[p]))))
    /\ UNCHANGED <<certs, rows>>

\* ---- specifications ----
\* The state New returns: an empty map, an existing (empty) table.
Init ==
    /\ certs = EmptyCerts
    /\ table = {}
    /\ rlocked = {}
    /\ wlocked = 0
    /\ pc = [p \in Procs |-> "idle"]
    /\ op = [p \in Procs |-> "none"]
    /\ key = [p \in Procs |-> 1]
    /\ val = [p \in Procs |-> 0]
    /\ rows = [p \in Procs |-> 0]
    /\ res = [p \in Procs |-> NoRes]
    /\ last = [k \in Keys |-> NoWrite]
    /\ putTargets = {}
    /\ putOK = {}
    /\ conc = [p \in Procs |-> FALSE]
    /\ held = EmptyCerts
    /\ storeOut = [p \in Procs |-> "none"]
    /\ newName = <<"a">>
    /\ newRes = [cache |-> TRUE, err |-> "nil"]
    /\ stmts = 1

Next ==
    \/ \E p \in Procs, k \in Keys : GetCall(p, k)
    \/ \E p \in Procs : GetRLock(p)
    \/ \E p \in Procs : GetRWake(p)
    \/ \E p \in Procs : GetFind(p)
    \/ \E p \in Procs : GetQuery(p)
    \/ \E p \in Procs, k \in Keys, d \in Payloads : PutCall(p, k, d)
    \/ \E p \in Procs : PutLock(p)
    \/ \E p \in Procs : LockDrained(p)
    \/ \E p \in Procs : PutUpdate(p)
    \/ \E p \in Procs : PutRowsAffected(p)
    \/ \E p \in Procs : PutInsert(p)
    \/ \E p \in Procs, k \in Keys : DeleteCall(p, k)
    \/ \E p \in Procs : DeleteLock(p)
    \/ \E p \in Procs : DeleteMem(p)
    \/ \E p \in Procs : DeleteExec(p)

Spec == Init /\ [][Next]_vars

\* A step of a call that is past its lock acquisition, or a reader's RLock.
Step(p) ==
    \/ GetRLock(p) \/ GetRWake(p) \/ GetFind(p) \/ GetQuery(p)
    \/ LockDrained(p)
    \/ PutUpdate(p) \/ PutRowsAffected(p) \/ PutInsert(p)
    \/ DeleteMem(p) \/ DeleteExec(p)

\* c.certsMu.Lock() of a writer competing with other writers
WLock(p) == PutLock(p) \/ DeleteLock(p)

\* Every goroutine inside a call keeps running and every store call returns
\* (weak fairness); a writer that can take the mutex again and again does
\* take it (sync.Mutex hands over to the longest waiter: strong fairness).
\* Nothing obliges a caller to call.
Fairness ==
    \A p \in Procs : WF_vars(Step(p)) /\ SF_vars(WLock(p))

\* The calls of the fair specification: whether a call returns depends on
\* the lock and on the store calls returning, not on which key or payload
\* it carries, so these are drawn from smaller sets.
LiveKeys == 1..NumLiveKeys
LivePayloads == 1..NumLiveVals

NextFair ==
    \/ \E p \in Procs, k \in LiveKeys : GetCall(p, k)
    \/ \E p \in Procs, k \in LiveKeys, d \in LivePayloads : PutCall(p, k, d)
    \/ \E p \in Procs, k \in LiveKeys : DeleteCall(p, k)
    \/ \E p \in Procs : Step(p)
    \/ \E p \in Procs : WLock(p)

SpecFair == Init /\ [][NextFair]_vars /\ Fairness

\* Construction: New is called, any number of times, with any table name.
InitNew ==
    /\ certs = EmptyCerts
    /\ table = {}
    /\ rlocked = {}
    /\ wlocked = 0
    /\ pc = [p \in Procs |-> "idle"]
    /\ op = [p \in Procs |-> "none"]
    /\ key = [p \in Procs |-> 1]
    /\ val = [p \in Procs |-> 0]
    /\ rows = [p \in Procs |-> 0]
    /\ res = [p \in Procs |-> NoRes]
    /\ last = [k \in Keys |-> NoWrite]
    /\ putTargets = {}
    /\ putOK = {}
    /\ conc = [p \in Procs |-> FALSE]
    /\ held = EmptyCerts
    /\ storeOut = [p \in Procs |-> "none"]
    /\ newName = <<>>
    /\ newRes = [cache |-> FALSE, err |-> "none"]
    /\ stmts = 0

NextNew == \E name \in Names : New(name)

SpecNew == InitNew /\ [][NextNew]_vars

TypeOK ==
    /\ DOMAIN certs \subseteq Keys
    /\ \A k \in DOMAIN certs : certs[k] \in Payloads
    /\ table \subseteq [key : Keys, data : Payloads]
    /\ rlocked \subseteq Procs
    /\ wlocked \in Procs \cup {0}

\* ---- properties ----
Returns(p) == pc[p] # "idle" /\ pc'[p] = "idle"
GetReturns(p) == op[p] = "Get" /\ Returns(p)
RowsOf(k) == {r \in table : r.key = k}
PutDone(p, k) == pc[p] = "idle" /\ op[p] = "Put" /\ key[p] = k /\ res[p] = Nil
IsBlank(s) == \A i \in 1..Len(s) : IsSpace(s[i])

\* C1. Write-then-read: when the last write call on k that returned is a
\* successful Put(k, v), a Get(k) that returns, returns v and no error,
\* whatever rows other keys have in the store.
WriteThenRead ==
    [][\A p \in Procs :
         (GetReturns(p) /\ last[key[p]].kind = "put")
           => res'[p] = Data(last[key[p]].data)]_vars

\* A Get(k) has returned the payload of the last Put(k, v) while the store
\* holds a different payload under another key.
WriteThenReadWitness ==
    \E p \in Procs :
        /\ pc[p] = "idle" /\ op[p] = "Get"
        /\ last[key[p]].kind = "put"
        /\ res[p] = Data(last[key[p]].data)
        /\ \E r \in table : r.key # key[p] /\ r.data # res[p].data

\* C2. Delete-then-read: when the last write call on k that returned is a
\* successful Delete(k), a Get(k) that returns without a store failure
\* reports ErrCacheMiss.
DeleteThenRead ==
    [][\A p \in Procs :
         (GetReturns(p) /\ last[key[p]].kind = "del" /\ storeOut'[p] # "fail")
           => res'[p] = ErrCacheMiss]_vars

\* C3. Miss on unknown key: a Get(k) for a key no Put was ever called with,
\* returning without a store failure, reports ErrCacheMiss.
MissOnUnknownKey ==
    [][\A p \in Procs :
         (GetReturns(p) /\ key[p] \notin putTargets /\ storeOut'[p] # "fail")
           => res'[p] = ErrCacheMiss]_vars

\* C4. Overwrite: after Put(k, v1) and then Put(k, v2) have returned nil, the
\* map entry and the store row of k both hold v2 (until the next write on k
\* starts), and a Get(k) that returns, returns v2.
Overwrite ==
    /\ [](\A k \in Keys :
            (/\ last[k].kind = "put"
             /\ last[k].prev # 0
             /\ (wlocked = 0 \/ key[wlocked] # k))
              => /\ k \in DOMAIN certs
                 /\ certs[k] = last[k].data
                 /\ RowsOf(k) = {Row(k, last[k].data)})
    /\ [][\A p \in Procs :
            (GetReturns(p) /\ last[key[p]].kind = "put" /\ last[key[p]].prev # 0)
              => res'[p] = Data(last[key[p]].data)]_vars

\* Put(k, v1), Put(k, v2) with v1 # v2, then Get(k) returned v2.
OverwriteWitness ==
    \E p \in Procs :
        /\ pc[p] = "idle" /\ op[p] = "Get"
        /\ last[key[p]].kind = "put"
        /\ last[key[p]].prev # 0
        /\ last[key[p]].prev # last[key[p]].data
        /\ res[p] = Data(last[key[p]].data)
        /\ RowsOf(key[p]) = {Row(key[p], last[key[p]].data)}

\* C5. Concurrent writers: when every goroutine has returned nil from a
\* Put(k, v_i), the map entry of k is one of the v_i and the store holds
\* exactly that payload for k; a Get(k) returning while all the other
\* goroutines are in that state returns the payload of the Put that
\* returned last, which is also the payload in the store.
ConcurrentWriters ==
    /\ [](\A k \in Keys :
            (\A p \in Procs : PutDone(p, k))
              => /\ k \in DOMAIN certs
                 /\ certs[k] \in {val[p] : p \in Procs}
                 /\ RowsOf(k) = {Row(k, certs[k])})
    /\ [][\A p \in Procs :
            (/\ GetReturns(p)
             /\ last[key[p]].kind = "put"
             /\ \A q \in Procs \ {p} : PutDone(q, key[p]))
              => /\ res'[p] = Data(last[key[p]].data)
                 /\ RowsOf(key[p]) = {Row(key[p], res'[p].data)}]_vars

\* All goroutines returned nil from overlapping Puts of the same key with
\* pairwise different payloads.
ConcurrentWritersWitness ==
    \E k \in Keys :
        /\ \A p \in Procs : PutDone(p, k) /\ conc[p]
        /\ \A p, q \in Procs : p # q => val[p] # val[q]
        /\ certs[k] \in {val[p] : p \in Procs}

\* C6 as stated. Failure atomicity: when a call returns a store error, the
\* map is what it was before the call.
FailureAtomicity ==
    [][\A p \in Procs :
         (Returns(p) /\ res'[p] = StoreErr)
           => certs' = (IF op[p] = "Get" THEN certs ELSE held)]_vars

\* C6 amended. While a Get holds the read lock no step changes the map; a
\* Put returning a store error leaves the map as it was when Put took the
\* lock; a Delete(k) returning a store error leaves the map as it was when
\* Delete took the lock, less the entry of k.
FailureAtomicityAmended ==
    [][/\ (rlocked # {} => certs' = certs)
       /\ \A p \in Procs :
            (Returns(p) /\ res'[p] = StoreErr /\ op[p] # "Get")
              => certs' = (IF op[p] = "Delete" THEN DeleteCerts(held, key[p]) ELSE held)]_vars

\* A Put failed after its UPDATE changed the row: the store holds the new
\* payload and the map still the old one; and a Delete failed, leaving the
\* row in the store and no entry in the map.
FailureAtomicityWitness ==
    \E p, q \in Procs :
        /\ pc[p] = "idle" /\ op[p] = "Put" /\ res[p] = StoreErr
        /\ key[p] \in DOMAIN certs
        /\ certs[key[p]] # val[p]
        /\ Row(key[p], val[p]) \in table
        /\ pc[q] = "idle" /\ op[q] = "Delete" /\ res[q] = StoreErr
        /\ key[q] \notin DOMAIN certs
        /\ RowsOf(key[q]) # {}

\* C7. Idempotent delete: a Delete(k) of a key that was in neither the map
\* nor the store when Delete took the lock, whose DELETE statement did not
\* fail, returns nil.
IdempotentDelete ==
    [][\A p \in Procs :
         (/\ Returns(p) /\ op[p] = "Delete"
          /\ key[p] \notin DOMAIN held
          /\ RowsOf(key[p]) = {}
          /\ storeOut'[p] = "nil")
           => res'[p] = Nil]_vars

\* Delete(k) returned nil for a key no Put was ever called with.
IdempotentDeleteWitness ==
    \E p \in Procs :
        /\ pc[p] = "idle" /\ op[p] = "Delete" /\ res[p] = Nil
        /\ key[p] \notin putTargets
        /\ table # {}

NoReadThrough ==
    /\ [](DOMAIN certs \subseteq putOK)
    /\ [][\A p \in Procs :
            (op[p] = "Get" /\ pc[p] # "idle" /\ pc'[p] # pc[p])
              => certs' = certs]_vars

\* A Get was answered by the store and its key is still not in the map.
NoReadThroughWitness ==
    \E p \in Procs :
        /\ pc[p] = "idle" /\ op[p] = "Get"
        /\ storeOut[p] = "nil" /\ res[p].kind = "ok"
        /\ key[p] \notin DOMAIN certs

\* C10. New with an empty or all-white-space table name returns an error
\* and no Cache, and executes no statement.
BlankNameRejected ==
    [][IsBlank(newName')
         => /\ newRes'.cache = FALSE
            /\ newRes'.err # "nil"
            /\ stmts' = stmts]_vars

\* New was called with a two-character white-space name after earlier calls
\* had executed statements, and returned the tableName error.
BlankNameRejectedWitness ==
    /\ newName = <<" ", "\t">>
    /\ newRes = [cache |-> FALSE, err |-> "tableName must not be empty"]
    /\ stmts > 0

InReadCS(p) == pc[p] \in {"get_find", "get_query"} \/ (pc[p] = "get_rwait" /\ p \in rlocked)
InWriteCS(p) == pc[p] \in {"put_update", "put_rows", "put_insert", "del_mem", "del_exec"}
Steps(p) == pc[p] # "idle" /\ pc'[p] # pc[p]
RowsAfter(k) == {r \in table' : r.key = k}

\* C11. Lock exclusion: while a Put or Delete is between its Lock and its
\* return, no other Get, Put or Delete is between its own lock and return.
LockExclusion ==
    \A p, q \in Procs :
        (p # q /\ InWriteCS(p)) => (~InWriteCS(q) /\ ~InReadCS(q))

\* Every goroutine is inside the read-locked section of a Get at once.
LockExclusionWitness ==
    \A p \in Procs : pc[p] \in {"get_find", "get_query"} /\ p \in rlocked

\* C12. A Get(k) that returns a payload and no error returns the payload
\* held for k, in the map or in the row of k.
GetByKey ==
    [][\A p \in Procs :
         (GetReturns(p) /\ res'[p].kind = "ok")
           => \/ (key[p] \in DOMAIN certs /\ res'[p].data = certs[key[p]])
              \/ Row(key[p], res'[p].data) \in table]_vars

\* C13. Memory is never ahead of the store in Put: a step of Put in which a
\* database/sql call fails returns the error and leaves the map as it was
\* when Put took the lock; a step of Put changes the map only by setting
\* the entry of its key to its payload, when the row of the key holds that
\* payload, and Put then returns nil.
PutMemoryAfterStore ==
    [][\A p \in Procs :
         (op[p] = "Put" /\ Steps(p))
           => /\ storeOut'[p] = "fail"
                   => (pc'[p] = "idle" /\ res'[p] = StoreErr /\ certs' = held)
              /\ certs' # certs
                   => /\ certs' = PutCerts(certs, key[p], val[p])
                      /\ storeOut'[p] = "nil"
                      /\ Row(key[p], val[p]) \in table'
                      /\ pc'[p] = "idle" /\ res'[p] = Nil]_vars

\* A Put failed with no row and no entry for its key left behind, after a
\* Put of another key had succeeded.
PutMemoryAfterStoreWitness ==
    \E p \in Procs :
        /\ pc[p] = "idle" /\ op[p] = "Put" /\ res[p] = StoreErr
        /\ storeOut[p] = "fail"
        /\ key[p] \notin DOMAIN certs
        /\ RowsOf(key[p]) = {}
        /\ DOMAIN certs # {}

\* C14. Upsert by update-then-insert: Put goes on to the INSERT only when
\* the UPDATE reported zero rows affected, only the INSERT adds a row, and
\* when Put returns nil the store holds exactly one row for the key, with
\* the payload of the Put.
UpsertUpdateThenInsert ==
    [][\A p \in Procs :
         (op[p] = "Put" /\ Steps(p))
           => /\ pc'[p] = "put_insert" => (pc[p] = "put_rows" /\ rows[p] = 0)
              /\ Cardinality(table') > Cardinality(table) => pc[p] = "put_insert"
              /\ (pc'[p] = "idle" /\ res'[p] = Nil)
                   => RowsAfter(key[p]) = {Row(key[p], val[p])}]_vars

\* One Put has overwritten the row of its key, another has created the row
\* of a different key.
UpsertUpdateThenInsertWitness ==
    \E p, q \in Procs :
        /\ PutDone(p, key[p]) /\ PutDone(q, key[q])
        /\ key[p] # key[q]
        /\ last[key[p]].kind = "put" /\ last[key[p]].prev # 0
        /\ last[key[q]].kind = "put" /\ last[key[q]].prev = 0
        /\ RowsOf(key[p]) = {Row(key[p], val[p])}
        /\ RowsOf(key[q]) = {Row(key[q], val[q])}

\* C15 as stated. Write-through coherence: when no Put or Delete holds or
\* awaits the lock, every entry (k, v) of the map has a row (k, v).
Coherence ==
    wlocked = 0
      => \A k \in DOMAIN certs : RowsOf(k) = {Row(k, certs[k])}

\* C15 amended. When no Put or Delete holds or awaits the lock, every key
\* of the map has exactly one row, and the row holds the payload of the map
\* unless the last Put of the key to return returned an error.
CoherenceAmended ==
    wlocked = 0
      => \A k \in DOMAIN certs :
           /\ Cardinality(RowsOf(k)) = 1
           /\ last[k].kind # "putfail" => RowsOf(k) = {Row(k, certs[k])}

\* The map holds two keys: one whose row agrees with it, one whose row was
\* changed by a Put that then failed.
CoherenceWitness ==
    /\ wlocked = 0
    /\ \E j, k \in DOMAIN certs :
         /\ j # k
         /\ last[j].kind = "put" /\ RowsOf(j) = {Row(j, certs[j])}
         /\ last[k].kind = "putfail" /\ RowsOf(k) # {Row(k, certs[k])}

\* C16. Lock release on every path: a goroutine that is not inside a call
\* holds the lock neither for reading nor for writing, so when no call is
\* in progress the lock is free.
LockReleased ==
    \A p \in Procs : pc[p] = "idle" => (p \notin rlocked /\ wlocked # p)

\* After a Put or Delete returned a store error, another goroutine's write
\* call got the lock.
LockReleasedWitness ==
    \E p, q \in Procs :
        /\ p # q
        /\ pc[p] = "idle" /\ op[p] \in {"Put", "Delete"} /\ res[p] = StoreErr
        /\ wlocked = q /\ InWriteCS(q)

\* C17. A Get(k) that returns while k is in the map returns the payload of
\* the map and no error, without a store call.
GetFromMemory ==
    [][\A p \in Procs :
         (GetReturns(p) /\ key[p] \in DOMAIN certs)
           => (res'[p] = Data(certs[key[p]]) /\ storeOut'[p] = "none")]_vars

\* A Get was answered from the map while the map and the store disagree on
\* its key and another goroutine's store call had just failed.
GetFromMemoryWitness ==
    \E p, q \in Procs :
        /\ pc[p] = "idle" /\ op[p] = "Get" /\ storeOut[p] = "none"
        /\ key[p] \in DOMAIN certs /\ res[p] = Data(certs[key[p]])
        /\ Row(key[p], certs[key[p]]) \notin table
        /\ pc[q] = "idle" /\ storeOut[q] = "fail"

\* C18. Per-key frame: no step of a Put(k, *) or Delete(k) changes the map
\* entry or the rows of a key other than k.
PerKeyFrame ==
    [][\A p \in Procs :
         (op[p] \in {"Put", "Delete"} /\ Steps(p))
           => \A k \in Keys \ {key[p]} :
                /\ (k \in DOMAIN certs') = (k \in DOMAIN certs)
                /\ k \in DOMAIN certs => certs'[k] = certs[k]
                /\ RowsAfter(k) = RowsOf(k)]_vars

\* A Delete returned nil for a key that had been written, and another key
\* still has its entry and its row.
PerKeyFrameWitness ==
    \E p \in Procs :
        /\ pc[p] = "idle" /\ op[p] = "Delete" /\ res[p] = Nil
        /\ key[p] \in putOK
        /\ \E k \in DOMAIN certs : k # key[p] /\ RowsOf(k) = {Row(k, certs[k])}

\* C19. No operation blocks for ever: under fair scheduling, with store
\* calls that return, every Get, Put and Delete that was called returns.
EveryCallReturns ==
    \A p \in Procs : (pc[p] # "idle") ~> (pc[p] = "idle")

\* A reader that had to sleep behind a writer has been handed the lock by
\* its Unlock, while the next writer already waits for the readers to leave.
EveryCallReturnsWitness ==
    \E p, q \in Procs :
        /\ pc[p] = "get_rwait" /\ p \in rlocked
        /\ pc[q] \in {"put_drain", "del_drain"}
====
